---------------------------- MODULE Spec2Model ----------------------------
(***************************************************************************)
(* A model of the pyqt_examples repository: the settings dialogs           *)
(* (qsettings/basic.py, qsettings/advanced.py), the prompt dialog          *)
(* (qdialog/dialog.py), the first-show refresh of the windows              *)
(* (qmodelview/common.py, qmodelproxy/sort_filter_proxy.py), the status    *)
(* trees and their selection (qmodelview/item_widget.py, model_view.py),   *)
(* the filtering proxy model (qmodelproxy/sort_filter_proxy.py) and the    *)
(* root/leaf combo boxes (qmodelview/model_view2.py).                      *)
(*                                                                         *)
(* Each example is its own program, so each has its own specification over *)
(* its own variables; the variables of the other examples stay put.        *)
(***************************************************************************)
EXTENDS Integers, Sequences, FiniteSets, TLC

VARIABLES
    \* ---- qsettings/advanced.py ----
    aStore,      \* SettingsModel (QSettings): the values held in memory, by key
    aDisk,       \* what QSettings.sync() last wrote to the INI file
    edits,       \* SettingsModelProxy._edits, in insertion order: <<attr, value>>
    editors,     \* the attributes a SettingsEditor has been handed out for
    lastEditor,  \* outcome of the last SettingsModelProxy.editor(attr) call
    aPhase,      \* "init" (main, no dialog yet), "open", "accepted", "rejected"
    aChecked,    \* id of the checked radio button of the dialog, -1 for none
    aBox,        \* CheckBox.isChecked()
    aSnap,       \* the values aStore held when the dialog was opened
    lastCall,    \* the last call of get(), value() or SettingsModel.editor()
    syncRun,     \* the sync() calls the caller has made since its last set()
    \* ---- qsettings/basic.py ----
    bStore,      \* SettingsModel (QSettings) of the basic dialog
    bDisk,       \* its INI file
    bPhase,      \* "init", "open", "accepted", "rejected", "crashed"
    bChecked,    \* RadioButtonGroup.button_group.checkedId()
    bBox,        \* checkbox.isChecked()
    \* ---- qdialog/dialog.py ----
    pText,       \* PromptDialog._text_field.text(), a sequence of characters
    pOkEnabled,  \* the OK button's isEnabled()
    pResult,     \* "open", "accepted", "rejected": how exec_() ended
    pChanges,    \* how many times textChanged has been emitted
    \* ---- qmodelproxy/sort_filter_proxy.py: MainWindow ----
    mwOpened,    \* MainWindow._opened
    mwVisible,   \* the window is shown
    mwShows,     \* show events delivered so far
    mwTimers,    \* single-shot timers scheduled and not yet fired
    mwRefreshes, \* calls of MainWindow.refresh so far
    \* ---- qmodelproxy/sort_filter_proxy.py: the models and MainWidget ----
    pxGen,       \* the items the seeded generator yields for the first refresh
    pxSource,    \* the rows of SourceModel, each a ColorItem
    pxFilterString, \* ProxyModel.filter_string, a sequence of characters
    pxFilterValue,  \* ProxyModel._filter_value: None or a color name
    pxSortRole,  \* ProxyModel.sortRole(): "display", "name" or "color"
    pxShown,     \* the source rows the proxy maps, i.e. the rows of the view
    pxLabel,     \* the text of MainWidget.item_count
    pxSignals,   \* the signals the proxy emitted in the last handler
    \* ---- qmodelview: StatusWindow and its status widget ----
    swWidget,    \* the widget main() was given: "item_widget", "model_view", "model_view2"
    swData,      \* what data.json holds: parent name -> child name -> status code
    swOpened,    \* StatusWindow._opened
    swVisible,   \* the window is shown
    swShows,     \* show events delivered so far
    swRefreshes, \* calls of the status widget's refresh so far
    swTree,      \* the top-level rows of the tree, each with its child rows
    swError,     \* the exception the last refresh ended with, "none" for none
    swHeader,    \* the header labels of the tree
    swLog,       \* what the last showEvent called, in the order it called it
    swSelected,  \* the selected row: <<>> for none, <<top row, child row>>
    swRan,       \* the selection handler has run
    swOutput,    \* what the last run of the selection handler printed
    swRaised,    \* the exception that left that run, "none" for none
    \* ---- qmodelview/model_view2.py: RootLeafWidget ----
    rlCounts,    \* the model the widget was given: the leaf rows of each root row
    rlRoot,      \* sel_root.currentIndex(), -1 for none
    rlLeafRoot,  \* the row of sel_leaf.rootModelIndex(), -1 for the invalid index
    rlLeaf,      \* sel_leaf.currentIndex(), -1 for none
    rlView,      \* the index last emitted with IndexChanged: <<>> or <<root, leaf>>
    rlCall       \* the last call of _set_root_index: what it read and the row it set

advVars == <<aStore, aDisk, edits, editors, lastEditor, aPhase, aChecked, aBox, aSnap>>
basVars == <<bStore, bDisk, bPhase, bChecked, bBox>>
callVars == <<lastCall, syncRun>>
settingsVars == <<advVars, basVars, callVars>>
promptVars == <<pText, pOkEnabled, pResult, pChanges>>
proxyVars == <<pxGen, pxSource, pxFilterString, pxFilterValue, pxSortRole,
               pxShown, pxLabel, pxSignals>>
mainWindowVars == <<mwOpened, mwVisible, mwShows, mwTimers, mwRefreshes, proxyVars>>
statusShowVars == <<swWidget, swData, swOpened, swVisible, swShows, swRefreshes,
                    swTree, swError, swHeader, swLog>>
selectionVars == <<swSelected, swRan, swOutput, swRaised>>
statusVars == <<statusShowVars, selectionVars>>
rootLeafVars == <<rlCounts, rlRoot, rlLeafRoot, rlLeaf, rlView, rlCall>>
windowVars == <<mainWindowVars, statusVars, rootLeafVars>>
vars == <<settingsVars, promptVars, windowVars>>

---------------------------------------------------------------------------
(* Python values, tagged with their type: 1, True and '1' are different    *)
(* values, and int() is what turns one into the other.                     *)

VStr(s)  == [t |-> "str", v |-> s]
VInt(s)  == [t |-> "int", v |-> s]
VBool(s) == [t |-> "bool", v |-> s]
None    == [t |-> "NoneType", v |-> "None"]
Absent  == [t |-> "absent", v |-> ""]
Raised(e) == [t |-> "raised", v |-> e]

IsRaised(x) == x.t = "raised"

\* int(value), the get_as_type / set_as_type of `toggle`
PyInt(x) ==
    CASE x.t = "int"  -> x
      [] x.t = "bool" -> VInt(IF x.v = "True" THEN "1" ELSE "0")
      [] x.t = "str"  -> IF x.v \in {"0", "1"} THEN VInt(x.v) ELSE Raised("ValueError")
      [] OTHER        -> Raised("TypeError")

\* bool(value), what QCheckBox.setChecked(value) makes of its argument
PyTruth(x) ==
    CASE x.t = "int"  -> x.v # "0"
      [] x.t = "bool" -> x.v = "True"
      [] x.t = "str"  -> x.v # ""
      [] OTHER        -> FALSE

\* What a QSettings in IniFormat keeps of a value in its file: text only, so
\* a number written comes back as a string when the file is read.
IniText(x) ==
    CASE x.t = "int"  -> VStr(x.v)
      [] x.t = "bool" -> VStr(IF x.v = "True" THEN "true" ELSE "false")
      [] OTHER        -> x

---------------------------------------------------------------------------
(* QSettings, as the code uses it: value(key, defaultValue), setValue,     *)
(* sync.                                                                   *)

Keys == {"color", "toggle"}

EmptyStore == [k \in Keys |-> Absent]

QValue(store, key, defaultValue) ==
    IF store[key] = Absent THEN defaultValue ELSE store[key]

QSetValue(store, key, x) == [store EXCEPT ![key] = x]

\* QSettings.sync(): the values are written to the file
QSync(store) == [k \in Keys |-> IniText(store[k])]

\* A new process: QSettings loads what the file holds.
QLoad(disk) == [k \in Keys |-> disk[k]]

---------------------------------------------------------------------------
(* qsettings/advanced.py: the Setting descriptor and SettingsModel         *)

\* color  = Setting('color', default='red')
\* toggle = Setting('toggle', default=False, get_as_type=int, set_as_type=int)
Settings == {"color", "toggle"}

SettingKey(attr) == attr

SettingDefault(attr) == IF attr = "color" THEN VStr("red") ELSE VBool("False")

GetAsType(attr) == IF attr = "toggle" THEN "int" ELSE "None"

SetAsType(attr) == IF attr = "toggle" THEN "int" ELSE "None"

\* Setting.__get__
MutSettingGetNoType(store, attr) ==
    QValue(store, SettingKey(attr), SettingDefault(attr))

SettingGet(store, attr) ==
    LET value == QValue(store, SettingKey(attr), SettingDefault(attr))
    IN  IF GetAsType(attr) = "int" THEN PyInt(value) ELSE value

\* Setting.__set__
MutSettingSetNoType(store, attr, value) ==
    QSetValue(store, SettingKey(attr), value)

SettingSet(store, attr, value) ==
    LET x == IF SetAsType(attr) = "int" THEN PyInt(value) ELSE value
    IN  QSetValue(store, SettingKey(attr), x)

\* hasattr(self._settings, attr)
MutHasAttrAlways(attr) == TRUE

HasAttr(attr) == attr \in Settings

---------------------------------------------------------------------------
(* qsettings/advanced.py: SettingsModelProxy                               *)

\* dict.__setitem__ on an insertion-ordered dict kept as a sequence of pairs
RECURSIVE DictSet(_, _, _)
DictSet(d, key, x) ==
    IF d = <<>> THEN <<<<key, x>>>>
    ELSE IF Head(d)[1] = key THEN <<<<key, x>>>> \o Tail(d)
    ELSE <<Head(d)>> \o DictSet(Tail(d), key, x)

DictKeys(d) == {d[i][1] : i \in 1..Len(d)}

DictValue(d, key) == d[CHOOSE i \in 1..Len(d) : d[i][1] = key][2]

\* SettingsModelProxy.setValue: setattr(self._settings, key, value)
ProxySetValue(store, key, value) == SettingSet(store, key, value)

\* the loop of SettingsModelProxy.sync
RECURSIVE SyncEdits(_, _)
MutSyncFirstOnly(store, d) ==
    IF d = <<>> THEN store ELSE ProxySetValue(store, d[1][1], d[1][2])

SyncEdits(store, d) ==
    IF d = <<>> THEN store
    ELSE SyncEdits(ProxySetValue(store, Head(d)[1], Head(d)[2]), Tail(d))

---------------------------------------------------------------------------
(* The widgets of the two settings dialogs                                 *)

\* SettingsDialog.colors: one row per color, the color as the item's data
Colors == <<"red", "blue", "green">>

Rows == 0 .. (Len(Colors) - 1)

\* self._model.item(index).data(); item() returns None for a row the model
\* does not have, and None has no data()
ItemData(index) ==
    IF index \in Rows THEN VStr(Colors[index + 1]) ELSE Raised("AttributeError")

\* RadioButtonGroup.__init__: button.setChecked(item.data() == value) for each row
InitialChecked(value) ==
    IF \E i \in Rows : ItemData(i) = value
    THEN CHOOSE i \in Rows : ItemData(i) = value
    ELSE -1

\* RadioButtonGroup._handle_change (advanced): self._editor.set(item.data())
MutRadioHandleChangeFirstRow(d, index) == DictSet(d, "color", ItemData(0))

RadioHandleChange(d, index) == DictSet(d, "color", ItemData(index))

\* CheckBox._handle_change (advanced): self._editor.set(self.isChecked())
CheckBoxHandleChange(d, checked) ==
    DictSet(d, "toggle", VBool(IF checked THEN "True" ELSE "False"))

---------------------------------------------------------------------------
(* qsettings/advanced.py: the operations                                   *)

Attrs == {"color", "toggle", "colour"}     \* "colour": a typo, no such attribute

\* the values a caller hands to an editor's set
EditValues(attr) ==
    IF attr = "color" THEN {VStr(Colors[i]) : i \in 1..Len(Colors)}
    ELSE {VBool("True"), VBool("False"), VInt("1")}

NoEditor == [attr |-> "", result |-> "none"]

\* SettingsModelProxy.editor(attr)
AdvEditor(attr) ==
    /\ aPhase \in {"init", "open"}
    /\ IF HasAttr(attr)
       THEN /\ editors' = editors \cup {attr}
            /\ lastEditor' = [attr |-> attr, result |-> "SettingsEditor"]
       ELSE /\ editors' = editors
            /\ lastEditor' = [attr |-> attr, result |-> "AssertionError"]
    /\ UNCHANGED <<aStore, aDisk, edits, aPhase, aChecked, aBox, aSnap>>

\* SettingsEditor.set(x): functools.partial(self._edits.__setitem__, attr)
MutEditorSetWritesThrough(attr, x) ==
    /\ aPhase = "init"
    /\ attr \in editors
    /\ aStore' = SettingSet(aStore, attr, x)
    /\ UNCHANGED <<edits, aDisk, editors, lastEditor, aPhase, aChecked, aBox, aSnap>>

AdvEditorSet(attr, x) ==
    /\ aPhase = "init"
    /\ attr \in editors
    /\ edits' = DictSet(edits, attr, x)
    /\ UNCHANGED <<aStore, aDisk, editors, lastEditor, aPhase, aChecked, aBox, aSnap>>

NoCall == [op |-> "none", arg |-> "", default |-> None, result |-> None]

Called(op, arg, default, result) ==
    [op |-> op, arg |-> arg, default |-> default, result |-> result]

\* the SettingsEditor pair for an attribute
SettingsEditor(attr) == [t |-> "SettingsEditor", v |-> attr]

\* a get that looks in the pending edits before the settings
MutEditorGetPending(store, d, attr) ==
    IF attr \in DictKeys(d) THEN DictValue(d, attr) ELSE SettingGet(store, attr)

\* SettingsEditor.get of the proxy: functools.partial(getattr, self._settings, attr)
EditorGet(store, d, attr) == SettingGet(store, attr)

\* the caller reads through an editor it was handed
AdvEditorGet(attr) ==
    /\ aPhase = "init"
    /\ attr \in editors
    /\ lastCall' = Called("get", attr, None, EditorGet(aStore, edits, attr))
    /\ UNCHANGED advVars

\* SettingsModelProxy.value: the getattr is evaluated and its value dropped;
\* the method has no return statement
ProxyValue(store, key, defaultValue) ==
    LET found == IF HasAttr(key) THEN SettingGet(store, key) ELSE defaultValue
    IN  IF IsRaised(found) THEN found ELSE None

\* the defaults a caller passes to value()
ValueDefaults == {None, VStr("blue")}

AdvValue(key, defaultValue) ==
    /\ aPhase = "init"
    /\ lastCall' = Called("value", key, defaultValue, ProxyValue(aStore, key, defaultValue))
    /\ UNCHANGED advVars

\* the attributes of a SettingsModel instance that the module defines: the
\* two Setting descriptors and editor; __init__ assigns none
ModelAttributes == Settings \cup {"editor"}

\* SettingsModel.editor: the assert evaluates self._settings first
ModelEditor(attr) ==
    IF "_settings" \notin ModelAttributes THEN Raised("AttributeError")
    ELSE IF ~HasAttr(attr) THEN Raised("AssertionError")
    ELSE SettingsEditor(attr)

AdvModelEditor(attr) ==
    /\ aPhase = "init"
    /\ lastCall' = Called("editor", attr, None, ModelEditor(attr))
    /\ UNCHANGED advVars

\* a sync() that forgets the edits it has written
MutSyncClearsEdits ==
    /\ aPhase = "init"
    /\ aStore' = SyncEdits(aStore, edits)
    /\ aDisk' = QSync(aStore')
    /\ edits' = <<>>
    /\ UNCHANGED <<editors, lastEditor, aPhase, aChecked, aBox, aSnap>>

\* SettingsModelProxy.sync(), called by the program itself
AdvSync ==
    /\ aPhase = "init"
    /\ aStore' = SyncEdits(aStore, edits)
    /\ aDisk' = QSync(aStore')               \* self._settings.sync()
    /\ UNCHANGED <<edits, editors, lastEditor, aPhase, aChecked, aBox, aSnap>>

\* SettingsDialog.__init__ (advanced), then exec_()
AdvOpen ==
    /\ aPhase = "init"
    /\ editors' = editors \cup {"color", "toggle"}
    /\ lastEditor' = [attr |-> "toggle", result |-> "SettingsEditor"]
    /\ aChecked' = InitialChecked(SettingGet(aStore, "color"))
    /\ aBox' = PyTruth(SettingGet(aStore, "toggle"))
    /\ aSnap' = [store |-> aStore, disk |-> aDisk]
    /\ aPhase' = "open"
    /\ UNCHANGED <<aStore, aDisk, edits>>

\* a click on radio button `index`: RadioButtonGroup._handle_change
AdvClick(index) ==
    /\ aPhase = "open"
    /\ aChecked' = index
    /\ edits' = RadioHandleChange(edits, index)
    /\ UNCHANGED <<aStore, aDisk, editors, lastEditor, aPhase, aBox, aSnap>>

\* a click on the checkbox: stateChanged, CheckBox._handle_change
AdvToggle ==
    /\ aPhase = "open"
    /\ aBox' = ~aBox
    /\ edits' = CheckBoxHandleChange(edits, aBox')
    /\ UNCHANGED <<aStore, aDisk, editors, lastEditor, aPhase, aChecked, aSnap>>

\* Save: SettingsDialog.accept
AdvAccept ==
    /\ aPhase = "open"
    /\ aStore' = SyncEdits(aStore, edits)
    /\ aDisk' = QSync(aStore')
    /\ aPhase' = "accepted"
    /\ UNCHANGED <<edits, editors, lastEditor, aChecked, aBox, aSnap>>

\* Cancel: QDialog.reject
AdvReject ==
    /\ aPhase = "open"
    /\ aPhase' = "rejected"
    /\ UNCHANGED <<aStore, aDisk, edits, editors, lastEditor, aChecked, aBox, aSnap>>

\* sys.exit() and the next run of main(): a new SettingsModel and a new proxy
AdvRelaunch ==
    /\ aPhase \in {"accepted", "rejected"}
    /\ aStore' = QLoad(aDisk)
    /\ edits' = <<>>
    /\ editors' = {}
    /\ lastEditor' = NoEditor
    /\ aChecked' = -1
    /\ aBox' = FALSE
    /\ aSnap' = [store |-> QLoad(aDisk), disk |-> aDisk]
    /\ aPhase' = "init"
    /\ UNCHANGED aDisk

---------------------------------------------------------------------------
(* qsettings/basic.py                                                      *)

\* self.value(key, default=...): QSettings.value is value(key, defaultValue,
\* type) and has no parameter `default`.  The binding looks up the keywords
\* it knows and drops the others, so the call is value(key): None for a key
\* that holds nothing.  (A binding that refuses unknown keywords raises
\* TypeError here for every key, stored or not.)
BasicValue(store, key) == QValue(store, key, None)

\* SettingsModel.color (property)
BasicColor(store) == BasicValue(store, "color")

\* SettingsModel.toggle (property): int(self.value('toggle', default=0))
BasicToggle(store) == PyInt(BasicValue(store, "toggle"))

\* SettingsDialog.__init__ (basic), then exec_()
BasOpen ==
    /\ bPhase = "init"
    /\ LET c == BasicColor(bStore)
           t == BasicToggle(bStore)
       IN  IF IsRaised(c) \/ IsRaised(t)
           THEN /\ bPhase' = "crashed"
                /\ UNCHANGED <<bChecked, bBox>>
           ELSE /\ bPhase' = "open"
                /\ bChecked' = InitialChecked(c)
                /\ bBox' = PyTruth(t)
    /\ UNCHANGED <<bStore, bDisk>>

BasClick(index) ==
    /\ bPhase = "open"
    /\ bChecked' = index
    /\ UNCHANGED <<bStore, bDisk, bPhase, bBox>>

BasToggle ==
    /\ bPhase = "open"
    /\ bBox' = ~bBox
    /\ UNCHANGED <<bStore, bDisk, bPhase, bChecked>>

\* Save: SettingsDialog.accept (basic); RadioButtonGroup.value raises before
\* anything is written when no button is checked
BasAccept ==
    /\ bPhase = "open"
    /\ LET c == ItemData(bChecked)
       IN  IF IsRaised(c)
           THEN /\ bPhase' = "crashed"
                /\ UNCHANGED <<bStore, bDisk>>
           ELSE /\ bStore' = QSetValue(QSetValue(bStore, "color", c), "toggle",
                                       PyInt(VBool(IF bBox THEN "True" ELSE "False")))
                /\ bDisk' = QSync(bStore')
                /\ bPhase' = "accepted"
    /\ UNCHANGED <<bChecked, bBox>>

BasReject ==
    /\ bPhase = "open"
    /\ bPhase' = "rejected"
    /\ UNCHANGED <<bStore, bDisk, bChecked, bBox>>

BasRelaunch ==
    /\ bPhase \in {"accepted", "rejected", "crashed"}
    /\ bStore' = QLoad(bDisk)
    /\ bChecked' = -1
    /\ bBox' = FALSE
    /\ bPhase' = "init"
    /\ UNCHANGED <<bDisk>>

\* the basic program has died with a traceback: the user's actions reach nothing
BasGone ==
    /\ bPhase = "crashed"
    /\ UNCHANGED basVars

---------------------------------------------------------------------------
(* qdialog/dialog.py: PromptDialog                                         *)

MaxText == 4        \* the longest text typed
MaxChanges == 6     \* the most textChanged signals followed

Chars == {"x", "y"}

\* PromptDialog._handle_text_changed: setEnabled(bool(text))
MutHandleTextChangedLatch(text, enabled) == enabled \/ text # <<>>

HandleTextChanged(text, enabled) == text # <<>>

\* the line edit's text becomes `text`; textChanged is emitted only when the
\* text differs, and the slot runs before control returns
PromptSetText(text) ==
    /\ pResult = "open"
    /\ text # pText
    /\ pChanges < MaxChanges
    /\ pText' = text
    /\ pOkEnabled' = HandleTextChanged(text, pOkEnabled)
    /\ pChanges' = pChanges + 1
    /\ UNCHANGED pResult

\* a key typed at the end of the text
PromptType(c) == Len(pText) < MaxText /\ PromptSetText(Append(pText, c))

\* backspace
PromptBackspace == pText # <<>> /\ PromptSetText(SubSeq(pText, 1, Len(pText) - 1))

\* select all, delete
PromptClear == PromptSetText(<<>>)

\* a click on OK: only an enabled button can be clicked
PromptAccept ==
    /\ pResult = "open"
    /\ pOkEnabled
    /\ pResult' = "accepted"
    /\ UNCHANGED <<pText, pOkEnabled, pChanges>>

\* Cancel, Escape or the window's close button
PromptReject ==
    /\ pResult = "open"
    /\ pResult' = "rejected"
    /\ UNCHANGED <<pText, pOkEnabled, pChanges>>

\* PromptDialog.__init__ and _setup
InitPrompt ==
    /\ pText = <<>>
    /\ pOkEnabled = FALSE
    /\ pResult = "open"
    /\ pChanges = 0

---------------------------------------------------------------------------
(* The status data and its presentation: qmodelview/common.py              *)

STATUS_NAMES ==
    [rdy |-> "Ready to Start", omt |-> "Omitted", wip |-> "In Progress", fin |-> "Final"]

STATUS_COLORS ==
    [rdy |-> "white", omt |-> "darkGray", wip |-> "yellow", fin |-> "green"]

\* STATUS_NAMES.get(status)
StatusNameGet(status) ==
    IF status \in DOMAIN STATUS_NAMES THEN STATUS_NAMES[status] ELSE "None"

MaxChildren == 2    \* the children of the first parent in data.json

\* names, in the order sorted() puts them
NameOrder == <<"A", "B", "a", "b", "c", "d">>

NameRank(name) == CHOOSE i \in 1..Len(NameOrder) : NameOrder[i] = name

\* sorted(data.items()): the keys, smallest first
RECURSIVE SortedKeys(_)
SortedKeys(S) ==
    IF S = {} THEN <<>>
    ELSE LET m == CHOOSE x \in S : \A y \in S : NameRank(x) <= NameRank(y)
         IN  <<m>> \o SortedKeys(S \ {m})

\* the status codes data.json may hold: the four known ones and one that
\* is not a key of STATUS_NAMES / STATUS_COLORS
FileCodes == {"rdy", "omt", "wip", "fin", "tbd"}

\* query_db(): the parsed data.json
Fixtures ==
    {[A |-> ca, B |-> cb] :
        ca \in [{NameOrder[2 + i] : i \in 1..MaxChildren} -> FileCodes],
        cb \in [{"a"} -> FileCodes]}

\* a row of the tree: the name column, the status column, the status code
\* kept as the item's data, and the background of the two columns
BlankRow == [text0 |-> "", text1 |-> "", data |-> "None", bg0 |-> "none", bg1 |-> "none"]

Built(rows, err) == [rows |-> rows, err |-> err]

---------------------------------------------------------------------------
(* qmodelview/item_widget.py: StatusWidget                                 *)

\* StatusWidget._create_child_item: the QTreeWidgetItem is constructed with
\* its parent, so it is a row of the parent from the first line on
ItemWidgetCreateChild(rows, name, status) ==
    IF status \notin DOMAIN STATUS_COLORS
    THEN Built(Append(rows, BlankRow), "KeyError")
    ELSE Built(Append(rows, [text0 |-> name,
                             text1 |-> StatusNameGet(status),
                             data  |-> status,
                             bg0   |-> STATUS_COLORS[status],
                             bg1   |-> STATUS_COLORS[status]]), "none")

\* the loop of StatusWidget._create_top_item over sorted(data.items())
RECURSIVE ItemWidgetChildren(_, _, _)
ItemWidgetChildren(rows, names, data) ==
    IF names = <<>> THEN Built(rows, "none")
    ELSE LET r == ItemWidgetCreateChild(rows, Head(names), data[Head(names)])
         IN  IF r.err # "none" THEN r
             ELSE ItemWidgetChildren(r.rows, Tail(names), data)

\* the loop of StatusWidget.refresh over sorted(data.items()); the top item
\* too is a row of the tree as soon as it is constructed
RECURSIVE ItemWidgetTops(_, _, _)
ItemWidgetTops(tree, names, data) ==
    IF names = <<>> THEN Built(tree, "none")
    ELSE LET name == Head(names)
             c == ItemWidgetChildren(<<>>, SortedKeys(DOMAIN data[name]), data[name])
             top == [text0 |-> name, children |-> c.rows]
         IN  IF c.err # "none" THEN Built(Append(tree, top), c.err)
             ELSE ItemWidgetTops(Append(tree, top), Tail(names), data)

\* StatusWidget.refresh: query_db(), clear(), the loop
ItemWidgetRefresh(data) == ItemWidgetTops(<<>>, SortedKeys(DOMAIN data), data)

---------------------------------------------------------------------------
(* qmodelview/model_view.py: StatusModel                                   *)

\* StatusModel._create_child_items: the two items are appended to the parent
\* in the last line, after the lookup of the color
ModelViewCreateChild(rows, name, status) ==
    IF status \notin DOMAIN STATUS_COLORS
    THEN Built(rows, "KeyError")
    ELSE Built(Append(rows, [text0 |-> name,
                             text1 |-> StatusNameGet(status),
                             data  |-> status,
                             bg0   |-> STATUS_COLORS[status],
                             bg1   |-> STATUS_COLORS[status]]), "none")

\* the loop of StatusModel._create_top_item
RECURSIVE ModelViewChildren(_, _, _)
ModelViewChildren(rows, names, data) ==
    IF names = <<>> THEN Built(rows, "none")
    ELSE LET r == ModelViewCreateChild(rows, Head(names), data[Head(names)])
         IN  IF r.err # "none" THEN r
             ELSE ModelViewChildren(r.rows, Tail(names), data)

\* the loop of StatusModel.refresh; the top item is appended to the model
\* after its children were created
RECURSIVE ModelViewTops(_, _, _)
ModelViewTops(tree, names, data) ==
    IF names = <<>> THEN Built(tree, "none")
    ELSE LET name == Head(names)
             c == ModelViewChildren(<<>>, SortedKeys(DOMAIN data[name]), data[name])
             top == [text0 |-> name, children |-> c.rows]
         IN  IF c.err # "none" THEN Built(tree, c.err)
             ELSE ModelViewTops(Append(tree, top), Tail(names), data)

\* StatusModel.refresh: query_db(), clear(), the header, the loop
ModelViewRefresh(data) == ModelViewTops(<<>>, SortedKeys(DOMAIN data), data)

---------------------------------------------------------------------------
(* Selecting a row of the status tree                                      *)

\* a QModelIndex, as the path of rows from the root: <<>> is the invalid
\* index, <<t>> a top-level row, <<t, c>> a child row
InvalidIndex == <<>>

\* QModelIndex.isValid
IndexIsValid(index) == index # <<>>

\* QModelIndex.parent: the parent of a top-level row is the invalid index
IndexParent(index) ==
    IF index = <<>> THEN InvalidIndex ELSE SubSeq(index, 1, Len(index) - 1)

\* ItemStatus = namedtuple('ItemStatus', 'parent child status')
ItemStatus(parent, child, status) ==
    [t |-> "ItemStatus", parent |-> parent, child |-> child, status |-> status]

NoOutput == <<>>

\* print_item_status: '{parent}:{child} ({status})'
PrintItemStatus(item_status) ==
    <<item_status.parent, ":", item_status.child, " (", item_status.status, ")">>

\* what a run of a selection handler leaves: the line printed and the
\* exception that left the handler
Handled(out, err) == [out |-> out, err |-> err]

\* item_widget.py, StatusWidget._item_status
ItemWidgetItemStatus(tree, item) ==
    ItemStatus(tree[item[1]].text0,
               tree[item[1]].children[item[2]].text0,
               tree[item[1]].children[item[2]].data)

\* item_widget.py, StatusWidget._handle_item_selection_handled; `selected`
\* is self.selectedItems(), and `or [None]` stands in for the empty list
ItemWidgetSelectionHandled(tree, selected) ==
    LET item == IF selected = <<>> THEN None ELSE [t |-> "item", v |-> selected]
    IN  IF item.t = None.t THEN Handled(NoOutput, "none")
        ELSE Handled(PrintItemStatus(ItemWidgetItemStatus(tree, item.v)), "none")

\* model_view.py, StatusView.selected_index
ModelViewSelectedIndex(selected) ==
    IF selected = <<>> THEN InvalidIndex ELSE selected

\* StatusModel.__getitem__ without its two isValid() tests:
\* itemFromIndex() of the invalid index is None, which has no text()
MutModelViewGetItemNoCheck(tree, index) ==
    IF Len(index) < 2 THEN Raised("AttributeError")
    ELSE ItemStatus(tree[index[1]].children[index[2]].text0,
                    tree[index[1]].text0,
                    tree[index[1]].children[index[2]].data)

\* model_view.py, StatusModel.__getitem__: the first field is given the text
\* of the row itself, the second the text of its parent
ModelViewGetItem(tree, index) ==
    IF ~IndexIsValid(index) THEN Raised("IndexError")
    ELSE IF ~IndexIsValid(IndexParent(index)) THEN Raised("IndexError")
    ELSE ItemStatus(tree[index[1]].children[index[2]].text0,
                    tree[index[1]].text0,
                    tree[index[1]].children[index[2]].data)

\* model_view.py, StatusView.selectionChanged: try / except IndexError / else
ModelViewSelectionChanged(tree, selected) ==
    LET r == ModelViewGetItem(tree, ModelViewSelectedIndex(selected))
    IN  IF IsRaised(r)
        THEN IF r.v = "IndexError" THEN Handled(NoOutput, "none")
             ELSE Handled(NoOutput, r.v)
        ELSE Handled(PrintItemStatus(r), "none")

\* the handler the widget has connected to its selection
SelectionHandler(widget, tree, selected) ==
    IF widget = "item_widget" THEN ItemWidgetSelectionHandled(tree, selected)
    ELSE ModelViewSelectionChanged(tree, selected)

\* the user clicks child row c of top-level row t; top-level rows are not
\* selectable, and the view of model_view2 has NoSelection
StatusSelect(t, c) ==
    /\ swVisible
    /\ swWidget \in {"item_widget", "model_view"}
    /\ t \in 1..Len(swTree)
    /\ c \in 1..Len(swTree[t].children)
    /\ swSelected # <<t, c>>
    /\ swSelected' = <<t, c>>
    /\ LET h == SelectionHandler(swWidget, swTree, <<t, c>>)
       IN  swOutput' = h.out /\ swRaised' = h.err
    /\ swRan' = TRUE
    /\ UNCHANGED statusShowVars

\* the user takes the selection away (Ctrl+click on the selected row)
StatusDeselect ==
    /\ swVisible
    /\ swSelected # <<>>
    /\ swSelected' = <<>>
    /\ LET h == SelectionHandler(swWidget, swTree, <<>>)
       IN  swOutput' = h.out /\ swRaised' = h.err
    /\ swRan' = TRUE
    /\ UNCHANGED statusShowVars

---------------------------------------------------------------------------
(* qmodelview/model_view2.py: StatusModel                                  *)

\* common.query_db as model_view2 calls it, with one positional argument:
\* `def query_db():` takes none
QueryDbCall(nargs) == IF nargs = 0 THEN "none" ELSE "TypeError"

\* StatusModel.refresh of model_view2: the call of query_db is its first
\* statement, and clear(), the header and the loop come after it
ModelView2Refresh(data) == Built(<<>>, QueryDbCall(1))

---------------------------------------------------------------------------
(* qmodelview/model_view2.py: RootLeafWidget                               *)

MaxRoots == 2       \* the root rows of the model the widget is given
MaxLeaves == 3      \* the most leaf rows under a root row

\* int(b), as Python multiplies a bool
PyBoolInt(b) == IF b THEN 1 ELSE 0

\* max(a, b)
PyMax(a, b) == IF a >= b THEN a ELSE b

\* the row without the max(0, ...)
MutRestoreRowNoMax(row, count, restore_selection) ==
    IF restore_selection THEN row * PyBoolInt(row < count) ELSE 0

\* the row _set_root_index passes to setCurrentIndex
RestoreRow(row, count, restore_selection) ==
    IF restore_selection THEN PyMax(0, row * PyBoolInt(row < count)) ELSE 0

\* QComboBox.setCurrentIndex(row) under a root with `count` rows: a row
\* that does not exist leaves no current index
ComboCurrent(row, count) == IF row >= 0 /\ row < count THEN row ELSE -1

\* QComboBox.count() of sel_leaf under a root: the invalid index is the
\* root of the top-level rows
LeafCount(counts, root) == IF root = -1 THEN Len(counts) ELSE counts[root + 1]

NoSetRootIndex == [op |-> "none", row |-> -1, count |-> 0, restore |-> FALSE, set |-> -1]

\* RootLeafWidget._set_root_index(self.sel_leaf, model.index(root, 0),
\* restore_selection), with what follows from setCurrentIndex: the combo
\* box emits currentIndexChanged when its current model index changes, and
\* _handle_leaf_changed emits IndexChanged with the index of the leaf row
SetRootIndex(root, restore_selection) ==
    LET row == rlLeaf                             \* combobox.currentIndex()
        count == LeafCount(rlCounts, root)        \* combobox.count(), new root
        set == RestoreRow(row, count, restore_selection)
        current == ComboCurrent(set, count)
    IN  /\ rlLeafRoot' = root                     \* combobox.setRootModelIndex(index)
        /\ rlLeaf' = current
        /\ rlCall' = [op |-> "set", row |-> row, count |-> count,
                      restore |-> restore_selection, set |-> set]
        /\ rlView' = IF root = rlLeafRoot /\ current = rlLeaf THEN rlView
                     ELSE IF current = -1 /\ rlLeaf = -1 THEN rlView
                     ELSE IF current = -1 THEN <<>>
                     ELSE <<root, current>>

\* the user picks a row of sel_root: _handle_root_changed(row)
RootSelect(row) ==
    /\ row \in 0..(Len(rlCounts) - 1)
    /\ row # rlRoot
    /\ rlRoot' = row
    /\ SetRootIndex(row, TRUE)
    /\ UNCHANGED rlCounts

\* the user picks a row of sel_leaf: _handle_leaf_changed(row)
LeafSelect(row) ==
    /\ row \in 0..(LeafCount(rlCounts, rlLeafRoot) - 1)
    /\ row # rlLeaf
    /\ rlLeaf' = row
    /\ rlView' = IF rlLeafRoot = -1 THEN <<row>> ELSE <<rlLeafRoot, row>>
    /\ UNCHANGED <<rlCounts, rlRoot, rlLeafRoot, rlCall>>

\* a caller resets the leaf combo box to the root that is selected:
\* _set_root_index(sel_leaf, index, restore_selection=False)
LeafReset ==
    /\ rlRoot # -1
    /\ SetRootIndex(rlRoot, FALSE)
    /\ UNCHANGED <<rlCounts, rlRoot>>

\* RootLeafWidget.__init__ over a model with rows: setModel makes row 0 the
\* current row of both combo boxes before their signals are connected
InitRootLeafFrom(models) ==
    /\ rlCounts \in models
    /\ rlRoot = ComboCurrent(0, Len(rlCounts))
    /\ rlLeafRoot = -1
    /\ rlLeaf = ComboCurrent(0, Len(rlCounts))
    /\ rlView = <<>>
    /\ rlCall = NoSetRootIndex

\* the models RootLeafWidget is followed over
InitRootLeaf == InitRootLeafFrom([1..MaxRoots -> 0..MaxLeaves])

\* the widget over the model of StatusModel() before any refresh: no rows
IdleRootLeaf == InitRootLeafFrom({<<>>})

---------------------------------------------------------------------------
(* qmodelview/common.py: StatusWindow                                      *)

MaxShows == 3       \* the most show events followed, per window

\* self._status_widget.refresh()
WidgetRefresh(widget, data) ==
    IF widget = "item_widget" THEN ItemWidgetRefresh(data)
    ELSE IF widget = "model_view" THEN ModelViewRefresh(data)
    ELSE ModelView2Refresh(data)

HeaderLabels == <<"Name", "Status">>

\* the header after the widget is constructed: item_widget sets it in
\* __init__, the two models in refresh
InitialHeader(widget) == IF widget = "item_widget" THEN HeaderLabels ELSE <<>>

\* the header after refresh: the models set it after query_db() and clear()
RefreshedHeader(widget, header) ==
    IF widget = "model_view2" /\ QueryDbCall(1) # "none" THEN header ELSE HeaderLabels

\* the order of StatusWindow.showEvent: _handle_window_opened() is called
\* in the `if`, super().showEvent(event) after it; an exception of refresh
\* leaves showEvent before the base class is called
ShowEventOrder(first, err) ==
    IF first
    THEN IF err = "none" THEN <<"refresh", "super.showEvent">> ELSE <<"refresh">>
    ELSE <<"super.showEvent">>

\* `if not self._opened` of StatusWindow.showEvent
MutStatusFirstShowAlways(opened) == TRUE

StatusFirstShow(opened) == ~opened

\* StatusWindow.showEvent
StatusShowEvent ==
    /\ ~swVisible
    /\ swShows < MaxShows
    /\ swVisible' = TRUE
    /\ swShows' = swShows + 1
    /\ IF StatusFirstShow(swOpened)
       THEN /\ swOpened' = TRUE
            /\ swRefreshes' = swRefreshes + 1          \* _handle_window_opened
            /\ LET r == WidgetRefresh(swWidget, swData)
               IN  /\ swTree' = r.rows
                   /\ swError' = r.err
                   /\ swLog' = ShowEventOrder(TRUE, r.err)
            /\ swHeader' = RefreshedHeader(swWidget, swHeader)
       ELSE /\ swLog' = ShowEventOrder(FALSE, "none")
            /\ UNCHANGED <<swOpened, swRefreshes, swTree, swError, swHeader>>
    /\ UNCHANGED <<swWidget, swData, selectionVars>>

\* the window is minimised or hidden
StatusHideEvent ==
    /\ swVisible
    /\ swVisible' = FALSE
    /\ UNCHANGED <<swWidget, swData, swOpened, swShows, swRefreshes, swTree, swError,
                   swHeader, swLog, selectionVars>>

\* common.main(widget, window_name) up to win.show()
InitStatusFrom(widgets, fixtures) ==
    /\ swWidget \in widgets
    /\ swData \in fixtures
    /\ swOpened = FALSE
    /\ swVisible = FALSE
    /\ swShows = 0
    /\ swRefreshes = 0
    /\ swTree = <<>>
    /\ swError = "none"
    /\ swHeader = InitialHeader(swWidget)
    /\ swLog = <<>>
    /\ swSelected = <<>>
    /\ swRan = FALSE
    /\ swOutput = NoOutput
    /\ swRaised = "none"

InitStatus == InitStatusFrom({"item_widget", "model_view", "model_view2"}, Fixtures)

\* the status window not run
IdleStatus ==
    InitStatusFrom({"item_widget"}, {f \in Fixtures : \A p \in DOMAIN f : \A c \in DOMAIN f[p] : f[p][c] = "rdy"})

---------------------------------------------------------------------------
(* qmodelproxy/sort_filter_proxy.py: SourceModel, ProxyModel, MainWidget   *)

MaxItems == 2       \* the items SourceModel.refresh makes (range(1000) in the code)

\* names as ' '.join(random.choices(self.words, k=...)) makes them
ItemNames == {<<"x", " ", "y">>, <<"y", " ", "x">>, <<"x", " ", "x">>}

\* the colors random.choice(COLOR_NAMES) is followed for
ItemColors == {"Red", "Blue"}

\* name.replace(' ', '\n')
DisplayName(name) == [i \in DOMAIN name |-> IF name[i] = " " THEN "\n" ELSE name[i]]

\* ColorItem(name, color): the display text, NAME_ROLE and COLOR_ROLE
ColorItem(name, color) ==
    [display |-> DisplayName(name), name |-> name, color |-> VStr(color)]

\* what the 1000 calls of _make_data_item can append, for some data.json
Generated ==
    [1..MaxItems -> {ColorItem(n, c) : n \in ItemNames, c \in ItemColors}]

\* the texts the user is followed typing into the Search field
FilterStrings == {<<>>, <<"x">>, <<"y">>, <<"x", " ">>, <<" ", "x">>}

\* the data of the rows of Colors: 'All Colors' -> None, then the names
ColorModes == {None, VStr("Red"), VStr("Blue"), VStr("Green")}

\* a fixed-string pattern matches where the text contains it
Contains(text, pattern) ==
    \E i \in 0..(Len(text) - Len(pattern)) : SubSeq(text, i + 1, i + Len(pattern)) = pattern

\* the base filter reading the display text instead of the filter role
MutBaseFilterDisplayRole(item, filterString) == Contains(item.display, filterString)

\* QSortFilterProxyModel.filterAcceptsRow: the fixed string against the data
\* of the filter role, which __init__ sets to UserRole + 1 = NAME_ROLE
BaseFilterAcceptsRow(item, filterString) == Contains(item.name, filterString)

\* ProxyModel.filterAcceptsRow
FilterAcceptsRow(item, filterString, filterValue) ==
    LET result == IF filterValue # None THEN filterValue = item.color ELSE TRUE
    IN  IF result THEN BaseFilterAcceptsRow(item, filterString) ELSE result

\* what invalidate() leaves: the mapping rebuilt with filterAcceptsRow, and
\* the signals emitted
Invalidated(shown, signals) == [shown |-> shown, signals |-> signals]

\* an invalidate() that rebuilds the mapping and emits nothing
MutInvalidateSilent(source, filterString, filterValue) ==
    Invalidated({i \in 1..Len(source) :
                    FilterAcceptsRow(source[i], filterString, filterValue)}, <<>>)

\* QSortFilterProxyModel.invalidate(): layoutAboutToBeChanged, the mapping
\* cleared and rebuilt, layoutChanged. The order the sort gives the rows
\* is not kept: pxShown is the set of the source rows mapped
Invalidate(source, filterString, filterValue) ==
    Invalidated({i \in 1..Len(source) :
                    FilterAcceptsRow(source[i], filterString, filterValue)},
                <<"layoutAboutToBeChanged", "layoutChanged">>)

\* 'Showing {:4d} Items'.format(self.model.rowCount())
ItemCountText(rowCount) == <<"Showing ", rowCount, " Items">>

\* MainWidget._update_item_count, connected to layoutChanged
UpdateItemCount(label, shown, signals) ==
    IF \E i \in 1..Len(signals) : signals[i] = "layoutChanged"
    THEN ItemCountText(Cardinality(shown)) ELSE label

\* ProxyModel.refresh: sourceModel().refresh(), then invalidate()
ProxyRefresh ==
    /\ pxSource' = pxGen
    /\ LET r == Invalidate(pxGen, pxFilterString, pxFilterValue)
       IN  /\ pxShown' = r.shown
           /\ pxSignals' = r.signals
           /\ pxLabel' = UpdateItemCount(pxLabel, r.shown, r.signals)
    /\ UNCHANGED <<pxGen, pxFilterString, pxFilterValue, pxSortRole>>

\* filter_edit.textChanged -> the filter_string setter
FilterEdit(text) ==
    /\ mwVisible
    /\ text # pxFilterString
    /\ pxFilterString' = text
    /\ LET r == Invalidate(pxSource, text, pxFilterValue)
       IN  /\ pxShown' = r.shown
           /\ pxSignals' = r.signals
           /\ pxLabel' = UpdateItemCount(pxLabel, r.shown, r.signals)
    /\ UNCHANGED <<pxGen, pxSource, pxFilterValue, pxSortRole>>
    /\ UNCHANGED <<mwOpened, mwVisible, mwShows, mwTimers, mwRefreshes>>

\* color_mode.Changed -> the filter_value setter
ColorMode(value) ==
    /\ mwVisible
    /\ value # pxFilterValue
    /\ pxFilterValue' = value
    /\ LET r == Invalidate(pxSource, pxFilterString, value)
       IN  /\ pxShown' = r.shown
           /\ pxSignals' = r.signals
           /\ pxLabel' = UpdateItemCount(pxLabel, r.shown, r.signals)
    /\ UNCHANGED <<pxGen, pxSource, pxFilterString, pxSortRole>>
    /\ UNCHANGED <<mwOpened, mwVisible, mwShows, mwTimers, mwRefreshes>>

\* sort_mode.Changed -> the sort_role setter: setSortRole sorts the rows
\* again, which emits layoutChanged and leaves the mapped rows the same.
\* The combo box starts on 'By Name' while the proxy sorts by display text
SortMode(role) ==
    /\ mwVisible
    /\ role # (IF pxSortRole = "display" THEN "name" ELSE pxSortRole)
    /\ pxSortRole' = role
    /\ pxSignals' = <<"layoutAboutToBeChanged", "layoutChanged">>
    /\ pxLabel' = UpdateItemCount(pxLabel, pxShown, pxSignals')
    /\ UNCHANGED <<pxGen, pxSource, pxFilterString, pxFilterValue, pxShown>>
    /\ UNCHANGED <<mwOpened, mwVisible, mwShows, mwTimers, mwRefreshes>>

\* ProxyModel.__init__, SourceModel.__init__, MainWidget.__init__
InitProxyFrom(generated) ==
    /\ pxGen \in generated
    /\ pxSource = <<>>
    /\ pxFilterString = <<>>
    /\ pxFilterValue = None
    /\ pxSortRole = "display"
    /\ pxShown = {}
    /\ pxLabel = <<>>
    /\ pxSignals = <<>>

InitProxy == InitProxyFrom(Generated)

\* one data.json for the runs that do not look at the items
IdleProxy == InitProxyFrom({[i \in 1..MaxItems |-> ColorItem(<<"x", " ", "y">>, "Red")]})

---------------------------------------------------------------------------
(* qmodelproxy/sort_filter_proxy.py: MainWindow                            *)

\* `if not self._opened` of MainWindow.showEvent
MutMainFirstShowAlways(opened) == TRUE

MainFirstShow(opened) == ~opened

\* MainWindow.showEvent
MainShowEvent ==
    /\ ~mwVisible
    /\ mwShows < MaxShows
    /\ mwVisible' = TRUE
    /\ mwShows' = mwShows + 1
    /\ IF MainFirstShow(mwOpened)
       THEN /\ mwOpened' = TRUE
            /\ mwTimers' = mwTimers + 1        \* QTimer.singleShot(10, self.refresh)
       ELSE UNCHANGED <<mwOpened, mwTimers>>
    /\ UNCHANGED <<mwRefreshes, proxyVars>>

MainHideEvent ==
    /\ mwVisible
    /\ mwVisible' = FALSE
    /\ UNCHANGED <<mwOpened, mwShows, mwTimers, mwRefreshes, proxyVars>>

\* a single-shot timer fires: MainWindow.refresh -> ProxyModel.refresh
MainTimerFires ==
    /\ mwTimers > 0
    /\ mwTimers' = mwTimers - 1
    /\ mwRefreshes' = mwRefreshes + 1
    /\ ProxyRefresh
    /\ UNCHANGED <<mwOpened, mwVisible, mwShows>>

\* MainWindow.__init__
InitMainWindow ==
    /\ mwOpened = FALSE
    /\ mwVisible = FALSE
    /\ mwShows = 0
    /\ mwTimers = 0
    /\ mwRefreshes = 0

---------------------------------------------------------------------------
(* The settings programs: where they start                                 *)

\* what an INI file written by either program can hold
StartDisks ==
    {[color |-> c, toggle |-> t] : c \in {Absent}, t \in {Absent, VStr("0"), VStr("1")}} \cup
    {[color |-> VStr(Colors[i]), toggle |-> Absent] : i \in 1..Len(Colors)} \cup
    {[color |-> VStr(Colors[i]), toggle |-> t] :
        i \in 1..Len(Colors), t \in {VStr("0"), VStr("1")}}

InitSettingsFrom(disks) ==
    /\ \E d \in disks :
        /\ aDisk = d
        /\ bDisk = d
        /\ aStore = QLoad(d)
        /\ bStore = QLoad(d)
        /\ aSnap = [store |-> QLoad(d), disk |-> d]
    /\ edits = <<>>
    /\ editors = {}
    /\ lastEditor = NoEditor
    /\ lastCall = NoCall
    /\ syncRun = 0
    /\ aPhase = "init"
    /\ aChecked = -1
    /\ aBox = FALSE
    /\ bPhase = "init"
    /\ bChecked = -1
    /\ bBox = FALSE

\* either settings program at the start of main()
InitSettings == InitSettingsFrom(StartDisks)

\* the settings programs not run: nothing stored
IdleSettings == InitSettingsFrom({EmptyStore})

\* qsettings/advanced.py alone: the dialog, and a caller of the proxy
InitAdvanced ==
    InitSettings /\ InitPrompt /\ InitMainWindow /\ IdleProxy /\ IdleStatus
        /\ IdleRootLeaf

InitDialogs == InitSettings /\ InitPrompt /\ InitMainWindow /\ IdleProxy /\ IdleStatus
        /\ IdleRootLeaf

InitPromptDialog ==
    IdleSettings /\ InitPrompt /\ InitMainWindow /\ IdleProxy /\ IdleStatus
        /\ IdleRootLeaf

InitWindows == IdleSettings /\ InitPrompt /\ InitMainWindow /\ IdleProxy /\ InitStatus
        /\ IdleRootLeaf

\* sort_filter_proxy.py alone
InitFilter == IdleSettings /\ InitPrompt /\ InitMainWindow /\ InitProxy /\ IdleStatus
        /\ IdleRootLeaf

\* RootLeafWidget of model_view2.py over a model that has rows
InitSelectors ==
    IdleSettings /\ InitPrompt /\ InitMainWindow /\ IdleProxy /\ IdleStatus /\ InitRootLeaf

othersOfSettings == <<promptVars, windowVars, callVars>>

NextAdvanced ==
    \/ (\E attr \in Attrs : AdvEditor(attr)) /\ UNCHANGED <<basVars, othersOfSettings>>
    \/ (\E attr \in Attrs : \E x \in EditValues(attr) : AdvEditorSet(attr, x))
            /\ UNCHANGED <<basVars, othersOfSettings>>
    \/ AdvSync /\ UNCHANGED <<basVars, othersOfSettings>>
    \/ AdvOpen /\ UNCHANGED <<basVars, othersOfSettings>>
    \/ (\E index \in Rows : AdvClick(index)) /\ UNCHANGED <<basVars, othersOfSettings>>
    \/ AdvToggle /\ UNCHANGED <<basVars, othersOfSettings>>
    \/ AdvAccept /\ UNCHANGED <<basVars, othersOfSettings>>
    \/ AdvReject /\ UNCHANGED <<basVars, othersOfSettings>>
    \/ AdvRelaunch /\ UNCHANGED <<basVars, othersOfSettings>>

SpecAdvanced == InitAdvanced /\ [][NextAdvanced]_vars

\* a caller of the settings objects of advanced.py, without the dialog
MaxSyncRun == 2     \* the sync() calls in a row that are told apart

\* the caller sets a value through an editor
ProxySet(attr, x) ==
    /\ AdvEditorSet(attr, x)
    /\ syncRun' = 0
    /\ UNCHANGED lastCall

\* the caller calls sync()
ProxySync ==
    /\ AdvSync
    /\ syncRun' = IF syncRun < MaxSyncRun THEN syncRun + 1 ELSE syncRun
    /\ UNCHANGED lastCall

NextProxy ==
    \/ (\E attr \in Attrs : AdvEditor(attr)) /\ UNCHANGED <<basVars, othersOfSettings>>
    \/ (\E attr \in Attrs : \E x \in EditValues(attr) : ProxySet(attr, x))
            /\ UNCHANGED <<basVars, promptVars, windowVars>>
    \/ ProxySync /\ UNCHANGED <<basVars, promptVars, windowVars>>
    \/ (\E attr \in Attrs : AdvEditorGet(attr))
            /\ UNCHANGED <<basVars, promptVars, windowVars, syncRun>>
    \/ (\E key \in Attrs : \E d \in ValueDefaults : AdvValue(key, d))
            /\ UNCHANGED <<basVars, promptVars, windowVars, syncRun>>
    \/ (\E attr \in Attrs : AdvModelEditor(attr))
            /\ UNCHANGED <<basVars, promptVars, windowVars, syncRun>>

SpecProxy == InitAdvanced /\ [][NextProxy]_vars

\* both dialogs, started from the same stored values, under the same user
NextDialogs ==
    \/ AdvOpen /\ BasOpen /\ UNCHANGED othersOfSettings
    \/ (\E index \in Rows : AdvClick(index) /\ (BasClick(index) \/ BasGone))
            /\ UNCHANGED othersOfSettings
    \/ AdvToggle /\ (BasToggle \/ BasGone) /\ UNCHANGED othersOfSettings
    \/ AdvAccept /\ (BasAccept \/ BasGone) /\ UNCHANGED othersOfSettings
    \/ AdvReject /\ (BasReject \/ BasGone) /\ UNCHANGED othersOfSettings
    \/ AdvRelaunch /\ BasRelaunch /\ UNCHANGED othersOfSettings

SpecDialogs == InitDialogs /\ [][NextDialogs]_vars

\* qdialog/dialog.py
NextPrompt ==
    \/ (\E c \in Chars : PromptType(c)) /\ UNCHANGED <<settingsVars, windowVars>>
    \/ PromptBackspace /\ UNCHANGED <<settingsVars, windowVars>>
    \/ PromptClear /\ UNCHANGED <<settingsVars, windowVars>>
    \/ PromptAccept /\ UNCHANGED <<settingsVars, windowVars>>
    \/ PromptReject /\ UNCHANGED <<settingsVars, windowVars>>

SpecPrompt == InitPromptDialog /\ [][NextPrompt]_vars

\* the windows of qmodelproxy and qmodelview and their show events
NextWindows ==
    \/ MainShowEvent /\ UNCHANGED <<settingsVars, promptVars, statusVars, rootLeafVars>>
    \/ MainHideEvent /\ UNCHANGED <<settingsVars, promptVars, statusVars, rootLeafVars>>
    \/ MainTimerFires /\ UNCHANGED <<settingsVars, promptVars, statusVars, rootLeafVars>>
    \/ StatusShowEvent /\ UNCHANGED <<settingsVars, promptVars, mainWindowVars, rootLeafVars>>
    \/ StatusHideEvent /\ UNCHANGED <<settingsVars, promptVars, mainWindowVars, rootLeafVars>>
    \/ (\E t \in 1..Len(swTree) : \E c \in 1..Len(swTree[t].children) : StatusSelect(t, c))
            /\ UNCHANGED <<settingsVars, promptVars, mainWindowVars, rootLeafVars>>
    \/ StatusDeselect /\ UNCHANGED <<settingsVars, promptVars, mainWindowVars, rootLeafVars>>

SpecWindows == InitWindows /\ [][NextWindows]_vars

\* qmodelproxy/sort_filter_proxy.py: the window and the three inputs
NextFilter ==
    \/ MainShowEvent /\ UNCHANGED <<settingsVars, promptVars, statusVars, rootLeafVars>>
    \/ MainHideEvent /\ UNCHANGED <<settingsVars, promptVars, statusVars, rootLeafVars>>
    \/ MainTimerFires /\ UNCHANGED <<settingsVars, promptVars, statusVars, rootLeafVars>>
    \/ (\E text \in FilterStrings : FilterEdit(text))
            /\ UNCHANGED <<settingsVars, promptVars, statusVars, rootLeafVars>>
    \/ (\E value \in ColorModes : ColorMode(value))
            /\ UNCHANGED <<settingsVars, promptVars, statusVars, rootLeafVars>>
    \/ (\E role \in {"name", "color"} : SortMode(role))
            /\ UNCHANGED <<settingsVars, promptVars, statusVars, rootLeafVars>>

SpecFilter == InitFilter /\ [][NextFilter]_vars

\* the two combo boxes of RootLeafWidget
NextSelectors ==
    \/ (\E row \in 0..(MaxRoots - 1) : RootSelect(row))
            /\ UNCHANGED <<settingsVars, promptVars, mainWindowVars, statusVars>>
    \/ (\E row \in 0..(PyMax(MaxRoots, MaxLeaves) - 1) : LeafSelect(row))
            /\ UNCHANGED <<settingsVars, promptVars, mainWindowVars, statusVars>>
    \/ LeafReset /\ UNCHANGED <<settingsVars, promptVars, mainWindowVars, statusVars>>

SpecSelectors == InitSelectors /\ [][NextSelectors]_vars

---------------------------------------------------------------------------
(* Claims about qsettings/advanced.py, checked under SpecAdvanced          *)

SyncStep == AdvSync \/ AdvAccept

\* C1: editor set calls leave the underlying settings alone: the settings (in
\* memory and in the file) change only in a sync(), where they become the
\* commit of the pending edits, or when a new run loads the file; a dialog
\* that is open, or was closed with Cancel, holds every setting at the value
\* it had when the dialog opened.
C1_EditsDeferredUntilSync ==
    /\ [](aPhase \in {"open", "rejected"} =>
            aStore = aSnap.store /\ aDisk = aSnap.disk)
    /\ [][(aStore' # aStore \/ aDisk' # aDisk) =>
            \/ /\ aPhase \in {"init", "open"}
               /\ aStore' = SyncEdits(aStore, edits)
               /\ aDisk' = QSync(aStore')
            \/ /\ aPhase \in {"accepted", "rejected"}
               /\ aPhase' = "init"
               /\ aDisk' = aDisk]_vars

\* C1 witness: a dialog cancelled after a click and a toggle, both pending
\* values different from what the settings hold
C1_Witness ==
    /\ aPhase = "rejected"
    /\ DictKeys(edits) = {"color", "toggle"}
    /\ DictValue(edits, "color") # SettingGet(aStore, "color")
    /\ PyInt(DictValue(edits, "toggle")) # SettingGet(aStore, "toggle")

\* C2: a sync() leaves every edited attribute reading as the value last set
\* for it (a toggle as the integer of it), every attribute without an edit as
\* it was, and the underlying settings written to the file.
C2_SyncCommitsEdits ==
    [][SyncStep =>
        /\ \A attr \in Settings :
              IF attr \in DictKeys(edits)
              THEN SettingGet(aStore', attr) =
                     IF attr = "toggle"
                     THEN VInt(IF DictValue(edits, attr) \in {VBool("True"), VInt("1")}
                               THEN "1" ELSE "0")
                     ELSE DictValue(edits, attr)
              ELSE aStore'[attr] = aStore[attr]
        /\ \A k \in Keys : aDisk'[k] = IniText(aStore'[k])]_vars

\* C2 witness: a Save that committed two pending edits and changed both values
C2_Witness ==
    /\ aPhase = "accepted"
    /\ Len(edits) = 2
    /\ \A attr \in Settings : aStore[attr] # aSnap.store[attr]
    /\ \A attr \in Settings : aDisk[attr] # aSnap.disk[attr]

\* C3: editor(attr) for an attr the settings do not have fails its assertion,
\* hands out no editor and changes neither the pending edits nor the
\* settings; for an attr they have it returns the get/set pair.  No editor
\* and no pending edit ever exists for a name that is not an attribute.
C3_EditorAssertsAttr ==
    /\ [](editors \subseteq {"color", "toggle"} /\ DictKeys(edits) \subseteq {"color", "toggle"})
    /\ [][\A attr \in Attrs : AdvEditor(attr) =>
            /\ IF attr \in {"color", "toggle"}
               THEN lastEditor'.result = "SettingsEditor" /\ attr \in editors'
               ELSE lastEditor'.result = "AssertionError" /\ editors' = editors
            /\ edits' = edits
            /\ aStore' = aStore
            /\ aDisk' = aDisk]_vars

\* C3 witness: the typo was refused while an edit was pending
C3_Witness ==
    /\ lastEditor = [attr |-> "colour", result |-> "AssertionError"]
    /\ edits # <<>>
    /\ editors # {}

\* C4: reading a Setting gives the stored value, or the default when the key
\* holds nothing, through get_as_type: color reads the stored string or 'red',
\* toggle the stored value as an integer or 0; the dialog shows what was read.
C4_ReadStoredOrDefault ==
    /\ SettingGet(aStore, "color") =
          IF aStore["color"] = Absent THEN VStr("red") ELSE aStore["color"]
    /\ SettingGet(aStore, "toggle") =
          IF aStore["toggle"] = Absent THEN VInt("0") ELSE VInt(aStore["toggle"].v)
    /\ aStore = EmptyStore =>
          SettingGet(aStore, "color") = VStr("red") /\ SettingGet(aStore, "toggle") = VInt("0")
    /\ (aPhase = "open" /\ edits = <<>>) =>
          /\ aChecked \in Rows
          /\ VStr(Colors[aChecked + 1]) =
                IF aStore["color"] = Absent THEN VStr("red") ELSE aStore["color"]
          /\ aBox = (aStore["toggle"] \in {VInt("1"), VStr("1")})

\* C4 witness: the dialog opened over an empty store shows Red and unchecked
C4_Witness ==
    /\ aStore = EmptyStore
    /\ aPhase = "open"
    /\ aChecked = 0
    /\ ~aBox

\* C5: a write stores set_as_type(value) under the key and a read afterwards
\* returns what was stored: a toggle committed from a boolean is stored as the
\* integer 0 or 1, never as a boolean, and the file only ever holds the text
\* of 0 or 1 for it.
C5_WriteCoerces ==
    /\ [](/\ aDisk["toggle"] \in {Absent, VStr("0"), VStr("1")}
          /\ aStore["toggle"] \in {Absent, VInt("0"), VInt("1"), VStr("0"), VStr("1")}
          /\ aStore["toggle"] # Absent => SettingGet(aStore, "toggle") \in {VInt("0"), VInt("1")})
    /\ [][SyncStep =>
            \A attr \in DictKeys(edits) :
                /\ aStore'[attr] =
                     IF attr = "toggle"
                     THEN (IF PyTruth(DictValue(edits, attr)) THEN VInt("1") ELSE VInt("0"))
                     ELSE DictValue(edits, attr)
                /\ SettingGet(aStore', attr) = aStore'[attr]]_vars

\* C5 witness: the checkbox's True was committed as the integer 1
C5_Witness ==
    /\ aPhase = "accepted"
    /\ "toggle" \in DictKeys(edits)
    /\ DictValue(edits, "toggle") = VBool("True")
    /\ aStore["toggle"] = VInt("1")

\* C8: a click on a radio button leaves that button checked, its id a row of
\* the item model, and the pending value of 'color' the data of that row,
\* one of 'red', 'blue', 'green'.
C8_RadioClickSetsColor ==
    [][\A index \in Rows : AdvClick(index) =>
        /\ aChecked' = index
        /\ aChecked' \in 0 .. 2
        /\ "color" \in DictKeys(edits')
        /\ DictValue(edits', "color") = VStr(Colors[aChecked' + 1])
        /\ DictValue(edits', "color") \in {VStr("red"), VStr("blue"), VStr("green")}]_vars

\* C8 witness: Green was clicked in a dialog over a stored 'blue'
C8_Witness ==
    /\ aPhase = "open"
    /\ aChecked = 2
    /\ "color" \in DictKeys(edits)
    /\ DictValue(edits, "color") = VStr("green")
    /\ aStore["color"] = VStr("blue")

---------------------------------------------------------------------------
(* Claims about the two dialogs together, checked under SpecDialogs        *)

\* C6: the basic and the advanced dialog behave identically: from the same
\* stored values and under the same user actions neither fails where the
\* other does not, and once both are closed the two settings models read the
\* same color and toggle.
C6_DialogsAgree ==
    /\ bPhase # "crashed"
    /\ (aPhase \in {"accepted", "rejected"} /\ bPhase \in {"accepted", "rejected"}) =>
          /\ BasicColor(bStore) = SettingGet(aStore, "color")
          /\ BasicToggle(bStore) = SettingGet(aStore, "toggle")

\* the colors the dialog offers, as stored values
ValidColors == {VStr(Colors[i]) : i \in 1..Len(Colors)}

\* C22: started over a stored color that is absent or one of the three
\* offered, the basic dialog has exactly one radio button checked whenever
\* it is open, so Save never fails on the checked id, and the stored color
\* stays absent-or-offered in memory and in the file over the sessions
C22_OneRadioChecked ==
    /\ bPhase = "open" => bChecked \in Rows
    /\ bPhase = "accepted" => bStore.color = ItemData(bChecked)
    /\ bStore.color \in ValidColors \cup {Absent}
    /\ bDisk.color \in ValidColors \cup {Absent}

---------------------------------------------------------------------------
(* Claims about qdialog/dialog.py, checked under SpecPrompt                *)

\* C7: in every state of the prompt dialog the OK button is enabled exactly
\* when the text field holds text: disabled over the empty text it starts
\* with, enabled once text is entered, disabled again once it is cleared.
C7_OkEnabledIffText ==
    /\ pOkEnabled = (Len(pText) > 0)
    /\ pChanges = 0 => (pText = <<>> /\ ~pOkEnabled)
    /\ pResult = "accepted" => Len(pText) > 0

\* C7 witness: text was entered and cleared again, and OK is disabled
C7_Witness ==
    /\ pResult = "open"
    /\ pChanges >= 2
    /\ pText = <<>>
    /\ ~pOkEnabled

---------------------------------------------------------------------------
(* Claims about the windows and the status trees, checked under            *)
(* SpecWindows                                                             *)

\* C9: each window triggers its refresh exactly once: from the first show
\* event on, MainWindow has scheduled one single-shot timer (pending or
\* fired as its one refresh) and StatusWindow has called refresh once, and no
\* later show event adds to either.
C9_RefreshOnce ==
    /\ mwTimers + mwRefreshes = (IF mwShows >= 1 THEN 1 ELSE 0)
    /\ swRefreshes = (IF swShows >= 1 THEN 1 ELSE 0)
    /\ mwOpened = (mwShows >= 1)
    /\ swOpened = (swShows >= 1)

\* C9 witness: both windows were shown, hidden and shown again, each with its
\* one refresh done
C9_Witness ==
    /\ mwShows >= 2
    /\ mwTimers = 0
    /\ mwRefreshes = 1
    /\ swShows >= 2
    /\ swRefreshes = 1

KnownCodes == {"rdy", "omt", "wip", "fin"}

ChildRows == {<<t, c>> \in (1..Len(swTree)) \X (1..MaxChildren + 1) : c <= Len(swTree[t].children)}

\* C10: every child row of the tree carries a status code from rdy, omt, wip,
\* fin, shows the name mapped from it in the status column and has the color
\* mapped from it on both columns; a record with another status code raises
\* KeyError and leaves no child row for it: every child row is the row of a
\* record of the data.
C10_ChildRowsWellFormed ==
    /\ \A tc \in ChildRows :
          LET top == swTree[tc[1]]
              row == top.children[tc[2]]
          IN  /\ row.data \in KnownCodes
              /\ row.text1 = STATUS_NAMES[row.data]
              /\ row.bg0 = STATUS_COLORS[row.data]
              /\ row.bg1 = STATUS_COLORS[row.data]
              /\ row.text0 \in DOMAIN swData[top.text0]
              /\ row.data = swData[top.text0][row.text0]
    /\ swError \in {"none", "KeyError"}
    /\ (swOpened /\ \E p \in DOMAIN swData : \E c \in DOMAIN swData[p] :
            swData[p][c] \notin KnownCodes) => swError = "KeyError"

---------------------------------------------------------------------------
(* Claims about the settings objects of advanced.py, under SpecProxy       *)

\* what the settings hold for a key, or the default passed
HeldOrDefault(store, key, defaultValue) ==
    IF key \in Keys /\ store[key] # Absent THEN store[key] ELSE defaultValue

\* C13: SettingsModelProxy.value(key, defaultValue) returns the value the
\* wrapped settings hold for the key, or defaultValue when they hold none
C13_ValueReturnsHeldOrDefault ==
    [][\A key \in Attrs : \A d \in ValueDefaults :
        AdvValue(key, d) => lastCall'.result = HeldOrDefault(aStore, key, d)]_vars

\* C14: SettingsModel.editor(attr) returns, for every declared setting, the
\* get/set pair of that setting
C14_ModelEditorReturnsPair ==
    lastCall.op = "editor" /\ lastCall.arg \in Settings =>
        lastCall.result = SettingsEditor(lastCall.arg)

\* the value read back for a setting the settings hold v for
ReadBack(attr, v) == IF attr = "toggle" THEN PyInt(v) ELSE v

\* C20: get() of a proxy editor returns the committed value, not the
\* pending edit: whatever was set() since, it returns what the settings
\* hold (or the default), and after sync() that is the coerced edit
C20_EditorReadsCommitted ==
    [][\A attr \in Settings : AdvEditorGet(attr) =>
        /\ lastCall'.result =
                ReadBack(attr, IF aStore[attr] = Absent THEN SettingDefault(attr)
                               ELSE aStore[attr])
        /\ (attr \in DictKeys(edits) /\ SyncEdits(aStore, edits) = aStore =>
                lastCall'.result = ReadBack(attr, DictValue(edits, attr)))]_vars

\* an edit is pending that differs from what get() has just returned
C20_Witness ==
    /\ lastCall.op = "get"
    /\ lastCall.arg \in DictKeys(edits)
    /\ ~IsRaised(PyInt(DictValue(edits, lastCall.arg)))
    /\ lastCall.result # ReadBack(lastCall.arg, DictValue(edits, lastCall.arg))
    /\ lastCall.result = SettingGet(aStore, lastCall.arg)

\* C21: sync() is idempotent: a sync() that follows a sync() with no set()
\* in between leaves the settings, in memory and in the file, as the first
\* left them; every sync() keeps the pending edits, so the second writes
\* the same values again
C21_SyncIdempotent ==
    [][ProxySync =>
        /\ edits' = edits
        /\ syncRun >= 1 => aStore' = aStore /\ aDisk' = aDisk]_vars

\* two calls of sync() in a row with edits pending, the edits still there
C21_Witness ==
    /\ syncRun = MaxSyncRun
    /\ edits # <<>>
    /\ aStore = SyncEdits(aStore, edits)
    /\ aDisk = QSync(aStore)

---------------------------------------------------------------------------
(* Claims about selecting a row of the status tree, under SpecWindows      *)

\* the row of the tree that is selected
SelectedRow == swTree[swSelected[1]].children[swSelected[2]]

\* C11: a selection change that leaves no row selected is handled without
\* an error and prints nothing, in item_widget (None stands in for the
\* item) and in model_view (the invalid index stands in, and the IndexError
\* of its lookup is caught); a line is printed only for a selected child row
C11_EmptySelectionHandled ==
    /\ swRaised = "none"
    /\ swRan /\ swSelected = <<>> => swOutput = NoOutput
    /\ swOutput # NoOutput =>
        /\ Len(swSelected) = 2
        /\ swSelected[1] \in 1..Len(swTree)
        /\ swSelected[2] \in 1..Len(swTree[swSelected[1]].children)

C11_Witness ==
    /\ swWidget = "model_view"
    /\ swRan
    /\ swSelected = <<>>
    /\ swOutput = NoOutput
    /\ swTree # <<>>

\* C12: for a selected child row the handler reports the text of the row's
\* top-level parent as the parent, the row's own name as the child and
\* the row's status code as the status, in item_widget and in model_view
C12_ReportsParentChildStatus ==
    swRan /\ swSelected # <<>> =>
        swOutput = PrintItemStatus(ItemStatus(swTree[swSelected[1]].text0,
                                              SelectedRow.text0,
                                              SelectedRow.data))

\* C16: in a show event of the status window, the refresh of the status
\* widget is called only after the base class has handled the event
C16_RefreshAfterBaseShowEvent ==
    \A i \in 1..Len(swLog) :
        swLog[i] = "refresh" => \E j \in 1..(i - 1) : swLog[j] = "super.showEvent"

\* C19: once the Model/View+ window has been shown, its model was loaded
\* without an error: it has the header labels and one top-level row for
\* each root record, ordered by name
C19_ModelView2Loaded ==
    swWidget = "model_view2" /\ swOpened =>
        /\ swError = "none"
        /\ swHeader = HeaderLabels
        /\ Len(swTree) = Cardinality(DOMAIN swData)
        /\ \A i \in 1..Len(swTree) : swTree[i].text0 = SortedKeys(DOMAIN swData)[i]

---------------------------------------------------------------------------
(* Claims about qmodelproxy/sort_filter_proxy.py, under SpecFilter         *)

\* C15: the proxy shows a source row exactly when filter_value is None or
\* equals the item's color, and the fixed-string filter accepts the item's
\* name; with filter_value None that is the base filter alone; the rows
\* shown are always rows of the source
C15_FilterAcceptsRow ==
    /\ pxShown = {i \in 1..Len(pxSource) :
                    /\ pxFilterValue = None \/ pxSource[i].color = pxFilterValue
                    /\ Contains(pxSource[i].name, pxFilterString)}
    /\ pxFilterValue = None =>
            pxShown = {i \in 1..Len(pxSource) : Contains(pxSource[i].name, pxFilterString)}
    /\ pxShown \subseteq 1..Len(pxSource)

\* a color and a text are set, and they let some rows through and not others
C15_Witness ==
    /\ pxFilterValue # None
    /\ Len(pxFilterString) = 2
    /\ pxShown # {}
    /\ pxShown # 1..Len(pxSource)

\* a change of the Search text or of the color
FilterChange ==
    \/ \E text \in FilterStrings : FilterEdit(text)
    \/ \E value \in ColorModes : ColorMode(value)

\* C17: refresh() and every change of filter_string or filter_value
\* invalidate the proxy, which emits layoutChanged, and leave the label
\* showing the proxy's rowCount(); once the first refresh has run the
\* label never shows another count than that of the rows shown
C17_LabelShowsRowCount ==
    /\ [][MainTimerFires \/ FilterChange =>
            /\ \E i \in 1..Len(pxSignals') : pxSignals'[i] = "layoutChanged"
            /\ pxLabel' = ItemCountText(Cardinality(pxShown'))]_vars
    /\ [](mwRefreshes > 0 => pxLabel = ItemCountText(Cardinality(pxShown)))

\* after the refresh a filter has taken rows away, and the label says so
C17_Witness ==
    /\ mwRefreshes > 0
    /\ pxFilterString # <<>>
    /\ Cardinality(pxShown) < Len(pxSource)
    /\ pxLabel = ItemCountText(Cardinality(pxShown))

---------------------------------------------------------------------------
(* Claims about RootLeafWidget of model_view2.py, under SpecSelectors      *)

\* C18: with restore_selection _set_root_index sets the row that was
\* current before the root index changed when the new root has that row,
\* and row 0 otherwise, also when no row was current (-1); the row it
\* sets is never negative; without restore_selection it sets row 0
C18_SetRootIndexRow ==
    rlCall.op = "set" =>
        /\ rlCall.set >= 0
        /\ rlCall.restore /\ rlCall.row >= 0 /\ rlCall.row < rlCall.count =>
                rlCall.set = rlCall.row
        /\ rlCall.restore /\ ~(rlCall.row >= 0 /\ rlCall.row < rlCall.count) =>
                rlCall.set = 0
        /\ ~rlCall.restore => rlCall.set = 0

\* no row was current, the new root has rows, and row 0 was set
C18_Witness ==
    /\ rlCall.op = "set"
    /\ rlCall.restore
    /\ rlCall.row = -1
    /\ rlCall.count > 0
    /\ rlCall.set = 0
    /\ rlLeaf = 0

=============================================================================
